---- MODULE Spec2Model ----
(***************************************************************************)
(* scripts/op_to_yaml.py: fetch one 1Password item through the `op` CLI    *)
(* and print it as a Kubernetes Secret manifest.                           *)
(*                                                                         *)
(* Text is modelled character by character: a string is a sequence of      *)
(* one-character strings, so that strip(), slicing, JSON parsing and the   *)
(* f-string formatting of the script are computed, not assumed.  The       *)
(* captured streams of the tool are taken as already decoded text (the     *)
(* tool is assumed to write UTF-8), and the script is assumed to be        *)
(* started with its two required arguments and with `op` on the PATH.      *)
(***************************************************************************)
EXTENDS Integers, Sequences, FiniteSets, TLC

\* ------------------------------------------------------------------ bounds
\* Longest field list of an Item Record the tool returns.
MaxFields == 2

\* Longest field list among the records whose fields differ in label only.
MaxLabels == 4

\* ----------------------------------------------------- program constants
\* secret[:500]
RawLimit == 500

\* --------------------------------------------------------- string literals
ApiVersionLine ==
    <<"a", "p", "i", "V", "e", "r", "s", "i", "o", "n", ":", " ", "v", "1">>

KindLine ==
    <<"k", "i", "n", "d", ":", " ", "S", "e", "c", "r", "e", "t">>

MetadataLine ==
    <<"m", "e", "t", "a", "d", "a", "t", "a", ":">>

NamePrefix ==
    <<" ", " ", "n", "a", "m", "e", ":", " ">>

StringDataLine ==
    <<"s", "t", "r", "i", "n", "g", "D", "a", "t", "a", ":">>

CONCEALED ==
    <<"C", "O", "N", "C", "E", "A", "L", "E", "D">>

password ==
    <<"p", "a", "s", "s", "w", "o", "r", "d">>

label_key ==
    <<"l", "a", "b", "e", "l">>

value_key ==
    <<"v", "a", "l", "u", "e">>

type_key ==
    <<"t", "y", "p", "e">>

fields_key ==
    <<"f", "i", "e", "l", "d", "s">>

NoneText ==
    <<"N", "o", "n", "e">>

FetchPrefix ==
    <<"E", "r", "r", "o", "r", " ", "f", "e", "t", "c", "h", "i", "n", "g", " ", "i", "t", "e", "m", " ", "'">>

FetchMiddle ==
    <<"'", " ", "f", "r", "o", "m", " ", "v", "a", "u", "l", "t", " ", "'">>

FetchSuffix ==
    <<"'", ":">>

EmptyPrefix ==
    <<"E", "r", "r", "o", "r", ":", " ", "E", "m", "p", "t", "y", " ", "r", "e", "s", "p", "o", "n", "s", "e", " ", "f", "r", "o", "m", " ", "1", "P", "a", "s", "s", "w", "o", "r", "d", " ", "f", "o", "r", " ", "i", "t", "e", "m", " ", "'">>

EmptySuffix ==
    <<"'">>

ParsePrefix ==
    <<"E", "r", "r", "o", "r", " ", "p", "a", "r", "s", "i", "n", "g", " ", "J", "S", "O", "N", " ", "r", "e", "s", "p", "o", "n", "s", "e", ":", " ">>

RawPrefix ==
    <<"R", "a", "w", " ", "r", "e", "s", "p", "o", "n", "s", "e", ":", " ">>

DuplicatePrefix ==
    <<"E", "r", "r", "o", "r", ":", " ", "d", "u", "p", "l", "i", "c", "a", "t", "e", " ", "k", "e", "y", ":", " ">>

\* Last line of the traceback of the uncaught KeyError of content["fields"].
KeyErrorLine ==
    <<"K", "e", "y", "E", "r", "r", "o", "r", ":", " ", "'", "f", "i", "e", "l", "d", "s", "'">>

\* str(e) of the JSONDecodeError, kept as one opaque piece of text.
JSONDecodeErrorText ==
    <<"{e}">>

\* ------------------------------------------------------------ Python values
\* None, and what field.get(k) returns for an absent key.
None == [t |-> "none", v |-> <<>>]

StrVal(s) == [t |-> "str", v |-> s]

ListVal(xs) == [t |-> "list", v |-> xs]

DictVal(d) == [t |-> "dict", v |-> d]

\* d[k] = x on a dict (a function from keys to values)
Put(d, k, x) == [y \in DOMAIN d \cup {k} |-> IF y = k THEN x ELSE d[y]]

\* d.get(k) for a parsed JSON object d
Get(d, k) == IF k \in DOMAIN d.v THEN d.v[k] ELSE None

\* str(x) as an f-string renders it: None prints as the word None
Str(x) == IF x.t = "none" THEN NoneText ELSE x.v

\* ------------------------------------------------------------- str.strip()
PyWhitespace == {" ", "\t", "\n", "\r", "\f"}

RECURSIVE lstrip(_)
lstrip(s) ==
    IF s # <<>> /\ Head(s) \in PyWhitespace THEN lstrip(Tail(s)) ELSE s

RECURSIVE rstrip(_)
rstrip(s) ==
    IF s # <<>> /\ s[Len(s)] \in PyWhitespace
    THEN rstrip(SubSeq(s, 1, Len(s) - 1))
    ELSE s

\* mutant: only blanks are stripped
StripBlanks(s) == SelectSeq(s, LAMBDA c : c # " ")

strip(s) == rstrip(lstrip(s))

\* mutant: the slice is forgotten
SliceWhole(s, n) == s

\* s[:n]
Slice(s, n) == SubSeq(s, 1, IF Len(s) < n THEN Len(s) ELSE n)

\* ------------------------------------------------------------- json.loads
\* Strings, objects and arrays; a later duplicate key of an object
\* overwrites the earlier one, as in Python.  Escapes, numbers and the
\* literals true/false/null do not occur in the modelled responses.
JsonWs == {" ", "\t", "\n", "\r"}

JsonControl == {"\t", "\n", "\r", "\f", "\\"}

ParseFail == [ok |-> FALSE, val |-> None, next |-> 0]

RECURSIVE SkipWs(_, _)
SkipWs(s, i) ==
    IF i <= Len(s) /\ s[i] \in JsonWs THEN SkipWs(s, i + 1) ELSE i

\* position of the quote that closes a string whose body starts at i, or 0
RECURSIVE ScanString(_, _)
ScanString(s, i) ==
    IF i > Len(s) THEN 0
    ELSE IF s[i] = "\"" THEN i
    ELSE IF s[i] \in JsonControl THEN 0
    ELSE ScanString(s, i + 1)

\* s[i] is the opening quote
ParseString(s, i) ==
    LET j == ScanString(s, i + 1)
    IN  IF j = 0 THEN ParseFail
        ELSE [ok |-> TRUE, val |-> StrVal(SubSeq(s, i + 1, j - 1)), next |-> j + 1]

RECURSIVE ParseValue(_, _)
RECURSIVE ParseMembers(_, _, _)
RECURSIVE ParseElements(_, _, _)

\* i is the position of the first character of the value
ParseValue(s, i) ==
    IF i > Len(s) THEN ParseFail
    ELSE IF s[i] = "\"" THEN ParseString(s, i)
    ELSE IF s[i] = "{" THEN
        LET j == SkipWs(s, i + 1)
        IN  IF j <= Len(s) /\ s[j] = "}"
            THEN [ok |-> TRUE, val |-> DictVal(<<>>), next |-> j + 1]
            ELSE ParseMembers(s, j, <<>>)
    ELSE IF s[i] = "[" THEN
        LET j == SkipWs(s, i + 1)
        IN  IF j <= Len(s) /\ s[j] = "]"
            THEN [ok |-> TRUE, val |-> ListVal(<<>>), next |-> j + 1]
            ELSE ParseElements(s, j, <<>>)
    ELSE ParseFail

\* i is the position of the next key of an object, acc the members so far
ParseMembers(s, i, acc) ==
    IF i > Len(s) \/ s[i] # "\"" THEN ParseFail
    ELSE LET k == ParseString(s, i)
         IN  IF ~k.ok THEN ParseFail
             ELSE LET c == SkipWs(s, k.next)
                  IN  IF c > Len(s) \/ s[c] # ":" THEN ParseFail
                      ELSE LET x == ParseValue(s, SkipWs(s, c + 1))
                           IN  IF ~x.ok THEN ParseFail
                               ELSE LET e == SkipWs(s, x.next)
                                        d == Put(acc, k.val.v, x.val)
                                    IN  IF e > Len(s) THEN ParseFail
                                        ELSE IF s[e] = "}"
                                        THEN [ok |-> TRUE, val |-> DictVal(d), next |-> e + 1]
                                        ELSE IF s[e] = ","
                                        THEN ParseMembers(s, SkipWs(s, e + 1), d)
                                        ELSE ParseFail

\* i is the position of the next element of an array, acc the elements so far
ParseElements(s, i, acc) ==
    LET x == ParseValue(s, i)
    IN  IF ~x.ok THEN ParseFail
        ELSE LET e == SkipWs(s, x.next)
                 xs == Append(acc, x.val)
             IN  IF e > Len(s) THEN ParseFail
                 ELSE IF s[e] = "]"
                 THEN [ok |-> TRUE, val |-> ListVal(xs), next |-> e + 1]
                 ELSE IF s[e] = ","
                 THEN ParseElements(s, SkipWs(s, e + 1), xs)
                 ELSE ParseFail

\* json.loads(s): ok = FALSE stands for raising JSONDecodeError
json_loads(s) ==
    LET x == ParseValue(s, SkipWs(s, 1))
    IN  IF x.ok /\ SkipWs(s, x.next) = Len(s) + 1 THEN x ELSE ParseFail

\* ------------------------------------------- the external tool (`op`)
\* What `op item get ... --format json` can hand back: an Item Record
\* written as JSON text, or something else.
Quote(s) == <<"\"">> \o s \o <<"\"">>

RECURSIVE JoinWith(_, _)
JoinWith(sep, parts) ==
    IF parts = <<>> THEN <<>>
    ELSE IF Len(parts) = 1 THEN parts[1]
    ELSE parts[1] \o sep \o JoinWith(sep, Tail(parts))

\* a key of a field is written only when the field has it
ToolMember(k, x) ==
    IF x.t = "none" THEN <<>> ELSE <<Quote(k) \o <<":", " ">> \o Quote(x.v)>>

ToolField(f) ==
    <<"{">>
    \o JoinWith(<<",", " ">>,
                ToolMember(label_key, f.label)
                \o ToolMember(value_key, f.value)
                \o ToolMember(type_key, f.type))
    \o <<"}">>

ToolItem(fs) ==
    <<"{">> \o Quote(fields_key) \o <<":", " ", "[">>
    \o JoinWith(<<",", "\n", " ">>, [n \in 1..Len(fs) |-> ToolField(fs[n])])
    \o <<"]", "}", "\n">>

Labels == {None, StrVal(<<"a">>), StrVal(password)}

Values == {None, StrVal(<<"x">>)}

Types == {None, StrVal(CONCEALED), StrVal(<<"S", "T", "R", "I", "N", "G">>)}

FieldShapes == [label : Labels, value : Values, type : Types]

\* fields that all have a value and a type, for the longer field lists
LabelShapes == [label : Labels, value : {StrVal(<<"x">>)}, type : Types \ {None}]

ItemRecords ==
    UNION {[1..n -> FieldShapes] : n \in 0..MaxFields}
    \cup UNION {[1..n -> LabelShapes] : n \in 0..MaxLabels}

NotJson ==
    <<"n", "o", "t", " ", "j", "s", "o", "n">>

\* longer than the slice the script echoes
LongGarbage == [n \in 1..(RawLimit + 2) |-> "x"]

BlankResponses == {<<>>, <<" ">>, <<"\n", "\t">>, <<"\f">>}

MalformedResponses ==
    { NotJson,
      LongGarbage,
      <<"{">> \o Quote(fields_key) \o <<":", " ", "[">>,
      <<"{", "}", " ", "x">>,
      <<"\"", "a">> }

\* well-formed JSON that has no "fields" member
FieldlessResponses == {<<"{", "}">>, <<" ", "{", " ", "}", "\n">>}

Responses ==
    {ToolItem(fs) : fs \in ItemRecords}
    \cup BlankResponses \cup MalformedResponses \cup FieldlessResponses

SampleItem ==
    ToolItem(<<[label |-> StrVal(<<"a">>), value |-> StrVal(<<"x">>),
                type |-> StrVal(CONCEALED)]>>)

\* what the tool may have written to stdout when it fails
FailureResponses == {<<>>, NotJson, SampleItem}

ToolErrors == {<<>>, <<"d", "e", "n", "i", "e", "d", "\n">>}

FailureCodes == {1, -9}

ToolResults ==
    [returncode : {0}, stdout : Responses, stderr : {<<>>}]
    \cup [returncode : {0}, stdout : FailureResponses, stderr : ToolErrors]
    \cup [returncode : FailureCodes, stdout : FailureResponses, stderr : ToolErrors]

\* sys.argv of a run: program, vault_id, item_name and perhaps secret_name
ProgramName == <<"o", "p", "_", "t", "o", "_", "y", "a", "m", "l">>

VaultIds == {<<"v", "1">>}

ItemNames == {<<"d", "b">>}

SecretNames == {<<"s">>}

Argvs ==
    {<<ProgramName, v, n>> : v \in VaultIds, n \in ItemNames}
    \cup {<<ProgramName, v, n, k>> : v \in VaultIds, n \in ItemNames, k \in SecretNames}

\* -------------------------------------------------------------------- state
VARIABLES
    argv,         \* sys.argv
    vault_id,
    item_name,
    secret_name,
    spawned,      \* the command lines given to subprocess.run so far
    result,       \* the CompletedProcess
    secret,
    content,
    dupecheck,
    idx,          \* position of the running for loop in content["fields"]
    stdout,       \* what print() wrote to sys.stdout, one entry per call
    stderr,       \* what was written to sys.stderr, one entry per call
    exit_code,    \* Running until the process has exited
    pc,           \* the statement the script is at
    stages        \* the stages the run has entered, in order

vars ==
    <<argv, vault_id, item_name, secret_name, spawned, result, secret, content,
      dupecheck, idx, stdout, stderr, exit_code, pc, stages>>

Running == -1

NoResult == [returncode |-> 0, stdout |-> <<>>, stderr |-> <<>>]

\* ['op', 'item', 'get', item_name, '--reveal', '--vault', vault_id, '--format', 'json']
Command(item, vault) ==
    << <<"o", "p">>, <<"i", "t", "e", "m">>, <<"g", "e", "t">>, item,
       <<"-", "-", "r", "e", "v", "e", "a", "l">>,
       <<"-", "-", "v", "a", "u", "l", "t">>, vault,
       <<"-", "-", "f", "o", "r", "m", "a", "t">>, <<"j", "s", "o", "n">> >>

\* mutant: the default is the vault, not the item
ResolveSecretNameVault(av) == IF Len(av) > 3 THEN av[4] ELSE av[2]

\* secret_name = sys.argv[3] if len(sys.argv) > 3 else item_name
ResolveSecretName(av) == IF Len(av) > 3 THEN av[4] ELSE av[3]

Init ==
    /\ argv \in Argvs
    /\ vault_id = argv[2]
    /\ item_name = argv[3]
    /\ secret_name = ResolveSecretName(argv)
    /\ spawned = <<>>
    /\ result = NoResult
    /\ secret = <<>>
    /\ content = None
    /\ dupecheck = <<>>
    /\ idx = 0
    /\ stdout = <<>>
    /\ stderr = <<>>
    /\ exit_code = Running
    /\ pc = "run"
    /\ stages = <<>>

\* the run enters stage st (once)
Enter(st) ==
    stages' = IF stages # <<>> /\ stages[Len(stages)] = st THEN stages
              ELSE Append(stages, st)

\* sys.exit(1), or the exit of an uncaught exception
Exit(code) ==
    /\ exit_code' = code
    /\ pc' = "exit"

\* result = subprocess.run([...], stdout=PIPE, stderr=PIPE)
SubprocessRun ==
    /\ pc = "run"
    /\ \E r \in ToolResults : result' = r
    /\ spawned' = Append(spawned, Command(item_name, vault_id))
    /\ pc' = "returncode"
    /\ UNCHANGED <<argv, vault_id, item_name, secret_name, secret, content,
                   dupecheck, idx, stdout, stderr, exit_code, stages>>

\* mutant: a tool killed by a signal (negative code) passes as a success
ReturncodePositive(r) == r.returncode > 0

\* result.returncode != 0
ReturncodeFailed(r) == r.returncode # 0

\* if result.returncode != 0: two lines to stderr, sys.exit(1)
RetrievalError ==
    /\ pc = "returncode"
    /\ ReturncodeFailed(result)
    /\ stderr' = stderr \o <<FetchPrefix \o item_name \o FetchMiddle
                              \o vault_id \o FetchSuffix,
                             result.stderr>>
    /\ Exit(1)
    /\ Enter("retrieval")
    /\ UNCHANGED <<argv, vault_id, item_name, secret_name, spawned, result,
                   secret, content, dupecheck, idx, stdout>>

\* returncode is 0: secret = result.stdout.decode('utf-8')
RetrievalOk ==
    /\ pc = "returncode"
    /\ ~ReturncodeFailed(result)
    /\ secret' = result.stdout
    /\ pc' = "empty"
    /\ Enter("retrieval")
    /\ UNCHANGED <<argv, vault_id, item_name, secret_name, spawned, result,
                   content, dupecheck, idx, stdout, stderr, exit_code>>

\* mutant: the message goes to print() without file=sys.stderr
EmptyResponseErrorToStdout ==
    /\ pc = "empty"
    /\ strip(secret) = <<>>
    /\ stdout' = Append(stdout, EmptyPrefix \o item_name \o EmptySuffix)
    /\ Exit(1)
    /\ Enter("empty")
    /\ UNCHANGED <<argv, vault_id, item_name, secret_name, spawned, result,
                   secret, content, dupecheck, idx, stderr>>

\* if not secret.strip(): one line to stderr, sys.exit(1)
EmptyResponseError ==
    /\ pc = "empty"
    /\ strip(secret) = <<>>
    /\ stderr' = Append(stderr, EmptyPrefix \o item_name \o EmptySuffix)
    /\ Exit(1)
    /\ Enter("empty")
    /\ UNCHANGED <<argv, vault_id, item_name, secret_name, spawned, result,
                   secret, content, dupecheck, idx, stdout>>

ResponseNotEmpty ==
    /\ pc = "empty"
    /\ strip(secret) # <<>>
    /\ pc' = "parse"
    /\ Enter("empty")
    /\ UNCHANGED <<argv, vault_id, item_name, secret_name, spawned, result,
                   secret, content, dupecheck, idx, stdout, stderr, exit_code>>

\* mutant: the handler prints and forgets sys.exit(1)
MalformedResponseContinues ==
    /\ pc = "parse"
    /\ ~json_loads(secret).ok
    /\ stderr' = stderr \o <<ParsePrefix \o JSONDecodeErrorText,
                             RawPrefix \o Slice(secret, RawLimit)>>
    /\ pc' = "header"
    /\ Enter("parse")
    /\ UNCHANGED <<argv, vault_id, item_name, secret_name, spawned, result,
                   secret, content, dupecheck, idx, stdout, exit_code>>

\* except json.JSONDecodeError: two lines to stderr, sys.exit(1)
MalformedResponseError ==
    /\ pc = "parse"
    /\ ~json_loads(secret).ok
    /\ stderr' = stderr \o <<ParsePrefix \o JSONDecodeErrorText,
                             RawPrefix \o Slice(secret, RawLimit)>>
    /\ Exit(1)
    /\ Enter("parse")
    /\ UNCHANGED <<argv, vault_id, item_name, secret_name, spawned, result,
                   secret, content, dupecheck, idx, stdout>>

\* content = json.loads(secret)
ParseOk ==
    /\ pc = "parse"
    /\ json_loads(secret).ok
    /\ content' = json_loads(secret).val
    /\ pc' = "header"
    /\ Enter("parse")
    /\ UNCHANGED <<argv, vault_id, item_name, secret_name, spawned, result,
                   secret, dupecheck, idx, stdout, stderr, exit_code>>

HeaderLines(name) ==
    <<ApiVersionLine, KindLine, MetadataLine, NamePrefix \o name, StringDataLine>>

\* the five print() calls of the header, then dupecheck = {}
PrintHeader ==
    /\ pc = "header"
    /\ stdout' = stdout \o HeaderLines(secret_name)
    /\ dupecheck' = <<>>
    /\ idx' = 1
    /\ pc' = "dupecheck"
    /\ UNCHANGED <<argv, vault_id, item_name, secret_name, spawned, result,
                   secret, content, stderr, exit_code, stages>>

HasFields(c) == c.t = "dict" /\ fields_key \in DOMAIN c.v

Fields(c) == c.v[fields_key].v

\* content["fields"] raises KeyError: traceback to stderr, exit status 1
FieldsMissing ==
    /\ pc = "dupecheck"
    /\ ~HasFields(content)
    /\ stderr' = Append(stderr, KeyErrorLine)
    /\ Exit(1)
    /\ Enter("dupecheck")
    /\ UNCHANGED <<argv, vault_id, item_name, secret_name, spawned, result,
                   secret, content, dupecheck, idx, stdout>>

\* mutant: a missing label is never a duplicate
InDupecheckUnlessNone(key, d) == key.t # "none" /\ key \in DOMAIN d

\* key in dupecheck
InDupecheck(key, d) == key \in DOMAIN d

\* mutant: the message names the value
DuplicateMessageValue(key, value) == DuplicatePrefix \o Str(value)

\* f"Error: duplicate key: {key}"
DuplicateMessage(key, value) == DuplicatePrefix \o Str(key)

\* one turn of the first loop: dupecheck[key] = value
DupecheckInsert ==
    /\ pc = "dupecheck"
    /\ HasFields(content)
    /\ idx <= Len(Fields(content))
    /\ LET field == Fields(content)[idx]
           key == Get(field, label_key)
           value == Get(field, value_key)
       IN  /\ ~InDupecheck(key, dupecheck)
           /\ dupecheck' = Put(dupecheck, key, value)
    /\ idx' = idx + 1
    /\ Enter("dupecheck")
    /\ UNCHANGED <<argv, vault_id, item_name, secret_name, spawned, result,
                   secret, content, stdout, stderr, exit_code, pc>>

\* one turn of the first loop: sys.exit(f"Error: duplicate key: {key}")
DuplicateFieldError ==
    /\ pc = "dupecheck"
    /\ HasFields(content)
    /\ idx <= Len(Fields(content))
    /\ LET field == Fields(content)[idx]
           key == Get(field, label_key)
           value == Get(field, value_key)
       IN  /\ InDupecheck(key, dupecheck)
           /\ stderr' = Append(stderr, DuplicateMessage(key, value))
    /\ Exit(1)
    /\ Enter("dupecheck")
    /\ UNCHANGED <<argv, vault_id, item_name, secret_name, spawned, result,
                   secret, content, dupecheck, idx, stdout>>

\* the first loop is exhausted, the second begins
DupecheckDone ==
    /\ pc = "dupecheck"
    /\ HasFields(content)
    /\ idx > Len(Fields(content))
    /\ idx' = 1
    /\ pc' = "emit"
    /\ Enter("dupecheck")
    /\ UNCHANGED <<argv, vault_id, item_name, secret_name, spawned, result,
                   secret, content, dupecheck, stdout, stderr, exit_code>>

\* f"  {key}: \"{value}\""
FieldLine(key, value) ==
    <<" ", " ">> \o Str(key) \o <<":", " ", "\"">> \o Str(value) \o <<"\"">>

\* mutant: the password exclusion is forgotten
QualifiesAnyConcealed(field) == Get(field, type_key) = StrVal(CONCEALED)

\* if type == "CONCEALED" and key != "password"
Qualifies(field) ==
    /\ Get(field, type_key) = StrVal(CONCEALED)
    /\ Get(field, label_key) # StrVal(password)

\* one turn of the second loop, the condition true: print the entry
EmitField ==
    /\ pc = "emit"
    /\ idx <= Len(Fields(content))
    /\ LET field == Fields(content)[idx]
       IN  /\ Qualifies(field)
           /\ stdout' = Append(stdout, FieldLine(Get(field, label_key),
                                                 Get(field, value_key)))
    /\ idx' = idx + 1
    /\ Enter("emit")
    /\ UNCHANGED <<argv, vault_id, item_name, secret_name, spawned, result,
                   secret, content, dupecheck, stderr, exit_code, pc>>

\* one turn of the second loop, the condition false
SkipField ==
    /\ pc = "emit"
    /\ idx <= Len(Fields(content))
    /\ ~Qualifies(Fields(content)[idx])
    /\ idx' = idx + 1
    /\ Enter("emit")
    /\ UNCHANGED <<argv, vault_id, item_name, secret_name, spawned, result,
                   secret, content, dupecheck, stdout, stderr, exit_code, pc>>

\* the script runs off its end: exit status 0
EndOfScript ==
    /\ pc = "emit"
    /\ idx > Len(Fields(content))
    /\ Exit(0)
    /\ Enter("emit")
    /\ UNCHANGED <<argv, vault_id, item_name, secret_name, spawned, result,
                   secret, content, dupecheck, idx, stdout, stderr>>

Next ==
    \/ SubprocessRun
    \/ RetrievalError
    \/ RetrievalOk
    \/ EmptyResponseError
    \/ ResponseNotEmpty
    \/ MalformedResponseError
    \/ ParseOk
    \/ PrintHeader
    \/ FieldsMissing
    \/ DupecheckInsert
    \/ DuplicateFieldError
    \/ DupecheckDone
    \/ EmitField
    \/ SkipField
    \/ EndOfScript

Spec == Init /\ [][Next]_vars

\* ================================================================ properties
\* The definitions below are written from the statements they check and
\* read the state of the run only; of the operators above they use
\* json_loads alone, to tell well-formed JSON from the rest.

Exited == pc = "exit"

StageOrder == <<"retrieval", "empty", "parse", "dupecheck", "emit">>

IsPrefix(p, s) == Len(p) <= Len(s) /\ \A n \in 1..Len(p) : p[n] = s[n]

\* the label of a field as the script looks it up: None when the key is absent
LabelOf(f) == IF label_key \in DOMAIN f.v THEN f.v[label_key] ELSE None

TextOf(f, k) == IF k \in DOMAIN f.v THEN f.v[k].v ELSE NoneText

\* the field list of the Item Record, once the response has been parsed
HasRecordIn(c) == c.t = "dict" /\ fields_key \in DOMAIN c.v

HasRecord == HasRecordIn(content)

Record == content.v[fields_key].v

\* position n repeats the label of an earlier field
Repeats(fs, n) == \E m \in 1..(n - 1) : LabelOf(fs[m]) = LabelOf(fs[n])

SomeLabelTwice(fs) == \E n \in 1..Len(fs) : Repeats(fs, n)

FirstRepeat(fs) ==
    CHOOSE n \in 1..Len(fs) : Repeats(fs, n) /\ \A m \in 1..(n - 1) : ~Repeats(fs, m)

\* two fields that both have a label carry the same one
SomePresentLabelTwice(fs) ==
    \E m, n \in 1..Len(fs) :
        /\ m < n
        /\ label_key \in DOMAIN fs[m].v
        /\ label_key \in DOMAIN fs[n].v
        /\ fs[m].v[label_key] = fs[n].v[label_key]

LackLabel(fs) == {n \in 1..Len(fs) : label_key \notin DOMAIN fs[n].v}

AllBlank(s) == \A n \in 1..Len(s) : s[n] \in {" ", "\t", "\n", "\r", "\f"}

\* C1: for a record with two fields of the same label nothing, not even the
\* header, is written to standard output: output starts only after the
\* duplicate scan has run over the whole field list without a collision.
C1_NoOutputForDuplicateLabels ==
    (HasRecord /\ SomePresentLabelTwice(Record)) => stdout = <<>>

\* C2: on success the lines after the stringData: header are one line per
\* field of type CONCEALED whose label is not "password", in field order,
\* each two spaces, label, colon, space and the value in double quotes
\* (a missing label or value is printed as None).
C2_Wanted(f) ==
    /\ type_key \in DOMAIN f.v
    /\ f.v[type_key].v = CONCEALED
    /\ ~(label_key \in DOMAIN f.v /\ f.v[label_key].v = password)

C2_Line(f) ==
    <<" ", " ">> \o TextOf(f, label_key) \o <<":", " ">>
    \o <<"\"">> \o TextOf(f, value_key) \o <<"\"">>

C2_Expected(fs) ==
    LET wanted == SelectSeq(fs, C2_Wanted)
    IN  [n \in 1..Len(wanted) |-> C2_Line(wanted[n])]

C2_EmittedLinesAreTheQualifyingFields ==
    (Exited /\ exit_code = 0) =>
        /\ Len(stdout) >= 5
        /\ stdout[5] = StringDataLine
        /\ SubSeq(stdout, 6, Len(stdout)) = C2_Expected(Record)

\* a successful run that printed two entries and left a field out
C2_Witness ==
    /\ Exited
    /\ exit_code = 0
    /\ Len(stdout) = 7
    /\ stdout[6] # stdout[7]
    /\ Len(Record) > 2

\* C3: when the tool exits non-zero the run ends with exit code 1, has
\* written the tool's error text to standard error and nothing to standard
\* output, whatever the tool wrote to its standard output.
C3_RetrievalFailure ==
    (spawned # <<>> /\ result.returncode # 0) =>
        /\ stdout = <<>>
        /\ Exited =>
            /\ exit_code = 1
            /\ stderr # <<>>
            /\ stderr[Len(stderr)] = result.stderr

C3_Witness ==
    /\ Exited
    /\ result.returncode < 0
    /\ result.stdout = SampleItem
    /\ result.stderr # <<>>

\* C4: when some label (as the script looks it up, None for a missing one)
\* is on two fields, whatever their types, the run ends with exit code 1 at
\* the first field in field order that repeats a label, and the diagnostic
\* on standard error names that label.
C4_DuplicateLabelStopsTheRun ==
    (Exited /\ HasRecord /\ SomeLabelTwice(Record)) =>
        /\ exit_code = 1
        /\ idx = FirstRepeat(Record)
        /\ stderr = <<DuplicatePrefix
                      \o TextOf(Record[FirstRepeat(Record)], label_key)>>

\* the repeated label sits on fields that would never be printed, and the
\* scan stopped before the end of the list
C4_Witness ==
    /\ Exited
    /\ HasRecord
    /\ SomeLabelTwice(Record)
    /\ FirstRepeat(Record) < Len(Record)
    /\ \A n \in 1..Len(Record) : ~C2_Wanted(Record[n])
    /\ label_key \in DOMAIN Record[FirstRepeat(Record)].v

\* C5: when the tool exits zero and its output is neither blank nor
\* well-formed JSON, the run ends with exit code 1, standard error holds
\* the parse error and the first RawLimit characters of the raw response
\* (all of it when shorter), and standard output is empty.
C5_RawEcho ==
    [n \in 1..(IF Len(result.stdout) < RawLimit THEN Len(result.stdout) ELSE RawLimit)
        |-> result.stdout[n]]

C5_MalformedResponse ==
    (Exited /\ result.returncode = 0 /\ ~AllBlank(result.stdout)
        /\ ~json_loads(result.stdout).ok) =>
        /\ exit_code = 1
        /\ stdout = <<>>
        /\ Len(stderr) = 2
        /\ IsPrefix(ParsePrefix, stderr[1])
        /\ stderr[2] = RawPrefix \o C5_RawEcho
        /\ Len(stderr[2]) <= Len(RawPrefix) + RawLimit

\* a malformed response longer than the echoed slice
C5_Witness ==
    /\ Exited
    /\ result.returncode = 0
    /\ ~json_loads(result.stdout).ok
    /\ Len(result.stdout) > RawLimit

\* C6: when the tool exits zero and its output is empty or whitespace only,
\* the run ends with exit code 1, never reaches the JSON parse and writes
\* nothing to standard output.
C6_EmptyResponse ==
    (spawned # <<>> /\ result.returncode = 0 /\ AllBlank(result.stdout)) =>
        /\ stdout = <<>>
        /\ content = None
        /\ \A n \in 1..Len(stages) : stages[n] \notin {"parse", "dupecheck", "emit"}
        /\ Exited => exit_code = 1

\* the response is whitespace that is not made of blanks
C6_Witness ==
    /\ Exited
    /\ result.returncode = 0
    /\ result.stdout = <<"\n", "\t">>

\* C7: the name: line carries item_name when the third argument is omitted
\* and the supplied secret_name otherwise; the item asked of the tool is
\* item_name in both cases.
C7_ManifestName ==
    /\ stdout # <<>> =>
        stdout[4] = NamePrefix \o (IF Len(argv) = 3 THEN argv[3] ELSE argv[4])
    /\ \A n \in 1..Len(spawned) :
        /\ spawned[n][4] = argv[3]
        /\ spawned[n][7] = argv[2]

\* the third argument was omitted and the header was printed
C7_Witness ==
    /\ Len(argv) = 3
    /\ stdout # <<>>
    /\ spawned # <<>>

\* C8: standard output holds manifest lines only and standard error
\* diagnostics only; a run that ends with exit code 0 wrote nothing to
\* standard error.
C8_ErrorText(line) ==
    \/ IsPrefix(<<"E", "r", "r", "o", "r">>, line)
    \/ IsPrefix(RawPrefix, line)
    \/ line = KeyErrorLine
    \/ line = result.stderr

C8_ManifestLine(line) ==
    \/ line \in {ApiVersionLine, KindLine, MetadataLine, StringDataLine}
    \/ line = NamePrefix \o secret_name
    \/ /\ HasRecord
       /\ \E n \in 1..Len(Record) : line = C2_Line(Record[n])

C8_ChannelsNeverMix ==
    /\ \A n \in 1..Len(stdout) :
        C8_ManifestLine(stdout[n]) /\ ~C8_ErrorText(stdout[n])
    /\ \A n \in 1..Len(stderr) :
        C8_ErrorText(stderr[n]) /\ ~C8_ManifestLine(stderr[n])
    /\ exit_code = 0 => stderr = <<>>
    /\ exit_code = 1 => stderr # <<>>

\* a run that wrote to both channels
C8_Witness ==
    /\ Exited
    /\ stdout # <<>>
    /\ stderr # <<>>

\* C9: the stages run in the order retrieval check, empty check, JSON parse,
\* duplicate scan, emission; the run stops with exit code 1 at the first
\* stage that fails and enters no later one; it ends with exit code 0 only
\* when every stage passed and every qualifying field was printed; one
\* subprocess is spawned, once.
C9_FailingStage ==
    IF result.returncode # 0 THEN 1
    ELSE IF AllBlank(result.stdout) THEN 2
    ELSE LET r == json_loads(result.stdout)
         IN  IF ~r.ok THEN 3
             ELSE IF ~HasRecordIn(r.val) \/ SomeLabelTwice(r.val.v[fields_key].v)
             THEN 4
             ELSE 0

C9_StagesInOrder ==
    /\ IsPrefix(stages, StageOrder)
    /\ Len(spawned) = (IF pc = "run" THEN 0 ELSE 1)
    /\ exit_code \in {Running, 0, 1}
    /\ Exited <=> exit_code # Running
    /\ exit_code = 1 => Len(stages) = C9_FailingStage
    /\ exit_code = 0 =>
         /\ C9_FailingStage = 0
         /\ stages = StageOrder
         /\ Len(stdout) = 5 + Len(SelectSeq(Record, C2_Wanted))

\* a run that failed in the third stage
C9_Witness ==
    /\ Exited
    /\ exit_code = 1
    /\ stages = <<"retrieval", "empty", "parse">>

====
